---- MODULE Spec2Model ----
(***************************************************************************)
(* A model of the Crepid dashboard front end: the CrepidDashboard view     *)
(* (upload of three CSV files, result document, currency toggle, generic   *)
(* section tables), the CSVUploader form with the lib/api uploadCSV client *)
(* and the AppContext container they share.                                *)
(*                                                                         *)
(* JavaScript values are records [t, n, c, e]: t is the type tag, n the    *)
(* number of a "num", c the characters of a "str", e the ordered           *)
(* <<key, value>> properties of an "obj" or the <<index, element>> entries *)
(* of an "arr".  Strings and keys are sequences of one-character strings,  *)
(* so that toLowerCase, includes and the number formatter work on          *)
(* characters.                                                             *)
(***************************************************************************)
EXTENDS Integers, Sequences, FiniteSets, TLC

VARIABLES
    rosterFile,      \* CrepidDashboard: useState(null)
    activitiesFile,  \* CrepidDashboard: useState(null)
    skillsFile,      \* CrepidDashboard: useState(null)
    loading,         \* CrepidDashboard: useState(false)
    data,            \* CrepidDashboard: useState(null)
    currency,        \* CrepidDashboard: useState("INR")
    calls,           \* CrepidDashboard: suspended activations of handleUpload
    dashboardData,   \* AppProvider: useState(null)
    csvLoading,      \* CSVUploader: useState(false)
    csvCalls,        \* CSVUploader: suspended activations of handleUpload
    alertMsg,        \* window.alert: the notice raised by the last script step
    event            \* the handler the last step ran, with its input

vars == <<rosterFile, activitiesFile, skillsFile, loading, data, currency, calls,
          dashboardData, csvLoading, csvCalls, alertMsg, event>>

-----------------------------------------------------------------------------
(* Bounds of the model *)

\* numbers 0..MaxNum are cell values (they cover the ROI thresholds)
MaxNum == 16
\* rows of a generated multi-row table
MaxRows == 2
\* distinct keys a record of a generated multi-row table draws from
MaxKeys == 2

-----------------------------------------------------------------------------
(* JavaScript values *)

DigitChars == <<"0", "1", "2", "3", "4", "5", "6", "7", "8", "9">>

RECURSIVE DigitsOf(_)
\* the decimal digits of a natural number, most significant first
DigitsOf(n) ==
    IF n < 10 THEN <<DigitChars[n + 1]>>
    ELSE Append(DigitsOf(n \div 10), DigitChars[(n % 10) + 1])

Undefined == [t |-> "undefined", n |-> 0, c |-> <<>>, e |-> <<>>]
Null == [t |-> "null", n |-> 0, c |-> <<>>, e |-> <<>>]
NaN == [t |-> "nan", n |-> 0, c |-> <<>>, e |-> <<>>]
Num(n) == [t |-> "num", n |-> n, c |-> <<>>, e |-> <<>>]
Str(chars) == [t |-> "str", n |-> 0, c |-> chars, e |-> <<>>]
Obj(props) == [t |-> "obj", n |-> 0, c |-> <<>>, e |-> props]
\* an array: its elements under the keys "0", "1", ...
Arr(elems) ==
    [t |-> "arr", n |-> 0, c |-> <<>>,
     e |-> [i \in 1..Len(elems) |-> <<DigitsOf(i - 1), elems[i]>>]]

\* items.length
Length(arr) == Len(arr.e)

\* items[i - 1], for i in 1..Length(items)
Elem(arr, i) == arr.e[i][2]

\* ToBoolean: what `!x`, `x ? a : b` and `x && y` test
Truthy(v) ==
    CASE v.t \in {"undefined", "null", "nan"} -> FALSE
      [] v.t = "num" -> v.n # 0
      [] v.t = "str" -> Len(v.c) > 0
      [] OTHER -> TRUE

\* obj[key]: the value of the property, undefined when the object lacks it
Get(obj, key) ==
    IF \E i \in 1..Len(obj.e) : obj.e[i][1] = key
    THEN LET i == CHOOSE j \in 1..Len(obj.e) : obj.e[j][1] = key IN obj.e[i][2]
    ELSE Undefined

\* obj?.key
OptGet(obj, key) == IF obj.t \in {"undefined", "null"} THEN Undefined ELSE Get(obj, key)

\* Object.keys(obj), in the object's own property order
ObjectKeys(obj) == [i \in 1..Len(obj.e) |-> obj.e[i][1]]

UpperCase == <<"A", "B", "C", "D", "E", "F", "G", "H", "I", "J", "K", "L", "M",
               "N", "O", "P", "Q", "R", "S", "T", "U", "V", "W", "X", "Y", "Z">>
LowerCase == <<"a", "b", "c", "d", "e", "f", "g", "h", "i", "j", "k", "l", "m",
               "n", "o", "p", "q", "r", "s", "t", "u", "v", "w", "x", "y", "z">>

\* String.prototype.toLowerCase
toLowerCase(chars) ==
    [i \in 1..Len(chars) |->
        IF \E k \in 1..26 : UpperCase[k] = chars[i]
        THEN LowerCase[CHOOSE k \in 1..26 : UpperCase[k] = chars[i]]
        ELSE chars[i]]

\* String.prototype.includes
includes(chars, sub) ==
    \E i \in 0..(Len(chars) - Len(sub)) : SubSeq(chars, i + 1, i + Len(sub)) = sub

\* ToNumber of a cell value, as `<=` and Intl.NumberFormat apply it:
\* null is 0, the empty string is 0, undefined and other strings are NaN
ToNumber(v) ==
    CASE v.t = "num" -> v
      [] v.t = "null" -> Num(0)
      [] v.t = "str" /\ Len(v.c) = 0 -> Num(0)
      [] OTHER -> NaN

\* a <= b of JavaScript, b a number: false as soon as a converts to NaN
LessOrEqual(a, b) == ToNumber(a).t = "num" /\ ToNumber(a).n <= b

-----------------------------------------------------------------------------
(* Currency formatting: formatCurrency and Intl.NumberFormat *)

usdRate == 83

\* the currency signs Intl.NumberFormat prints: U+0024 and U+20B9
DollarSign == "$"
RupeeSign == "Rs"

\* amount / divisor as an exact fraction; NaN when amount is no number
Divide(amount, divisor) ==
    [nan |-> ToNumber(amount).t # "num", num |-> ToNumber(amount).n, den |-> divisor]

\* a formatter that truncates the fraction instead of rounding it
TruncatedMagnitude(q) ==
    LET a == IF q.num < 0 THEN -q.num ELSE q.num
    IN a \div q.den

\* maximumFractionDigits: 0 with the default rounding mode (half away from zero):
\* the magnitude of the rounded fraction
RoundedMagnitude(q) ==
    LET a == IF q.num < 0 THEN -q.num ELSE q.num
    IN (2 * a + q.den) \div (2 * q.den)

\* whether the locale puts a separator before the last `rest` digits:
\* en-US groups by three, en-IN by three and then by two
GroupBreak(locale, rest) ==
    IF locale = "en-US"
    THEN rest > 0 /\ rest % 3 = 0
    ELSE rest = 3 \/ (rest > 3 /\ (rest - 3) % 2 = 0)

RECURSIVE Grouped(_, _)
\* the digits with the locale's grouping separators
Grouped(locale, digits) ==
    IF Len(digits) = 0 THEN <<>>
    ELSE LET rest == Len(digits) - 1
         IN <<digits[1]>>
              \o (IF rest > 0 /\ GroupBreak(locale, rest) THEN <<",">> ELSE <<>>)
              \o Grouped(locale, Tail(digits))

\* new Intl.NumberFormat(locale, {style: "currency", currency: sign's currency,
\*   minimumFractionDigits: 0, maximumFractionDigits: 0}).format(q)
NumberFormat(locale, sign, q) ==
    IF q.nan THEN Str(<<sign, "N", "a", "N">>)
    ELSE Str((IF q.num < 0 THEN <<"-">> ELSE <<>>)
             \o <<sign>>
             \o Grouped(locale, DigitsOf(RoundedMagnitude(q))))

\* formatCurrency of the render in which `currency` is cur
formatCurrency(amount, cur) ==
    IF amount.t \in {"null", "undefined"} THEN Str(<<>>)
    ELSE IF cur = "USD"
         THEN NumberFormat("en-US", DollarSign, Divide(amount, usdRate))
         ELSE NumberFormat("en-IN", RupeeSign, Divide(amount, 1))

-----------------------------------------------------------------------------
(* SectionTable *)

\* the formatCurrency prop of a SectionTable rendered without one
NoFormatter == "none"

Chars_cost == <<"c", "o", "s", "t">>
Chars_gain == <<"g", "a", "i", "n">>
Chars_value == <<"v", "a", "l", "u", "e">>
Chars_salary == <<"s", "a", "l", "a", "r", "y">>
Chars_roi == <<"r", "o", "i">>

\* the column test of "Format currency if needed"
IsCurrencyColumn(col) ==
    \/ includes(toLowerCase(col), Chars_cost)
    \/ includes(toLowerCase(col), Chars_gain)
    \/ includes(toLowerCase(col), Chars_value)
    \/ includes(toLowerCase(col), Chars_salary)

RoiLow == 7
RoiMid == 14
Red400 == "#F87171"
Amber400 == "#FBBF24"
Green400 == "#34D399"
NoColor == ""

\* the thresholds taken as exclusive
RoiColorStrict(value) ==
    IF ToNumber(value).t = "num" /\ ToNumber(value).n < RoiLow THEN Red400
    ELSE IF ToNumber(value).t = "num" /\ ToNumber(value).n < RoiMid THEN Amber400
    ELSE Green400

\* "Conditional ROI background"
RoiColor(value) ==
    IF LessOrEqual(value, RoiLow) THEN Red400
    ELSE IF LessOrEqual(value, RoiMid) THEN Amber400
    ELSE Green400

\* the <td> of one item and column: its child and its backgroundColor
Cell(item, col, fmt) ==
    LET raw == Get(item, col)
        value == IF fmt # NoFormatter /\ IsCurrencyColumn(col)
                 THEN (IF Truthy(raw) THEN formatCurrency(raw, fmt) ELSE raw)
                 ELSE raw
    IN [value |-> value,
        backgroundColor |-> IF toLowerCase(col) = Chars_roi THEN RoiColor(value) ELSE NoColor]

\* the columns taken from the last record instead of the first
ColumnsOfLast(items) == ObjectKeys(Elem(items, Length(items)))

\* const columns = Object.keys(items[0])
Columns(items) == ObjectKeys(Elem(items, 1))

\* what a SectionTable that returns null renders
NoSection == [shown |-> FALSE, title |-> "", columns |-> <<>>, rows |-> <<>>]

\* SectionTable({title, items, formatCurrency}): the header cells and the body rows
SectionTable(title, items, fmt) ==
    IF ~Truthy(items) \/ Length(items) = 0 THEN NoSection
    ELSE [shown |-> TRUE,
          title |-> title,
          columns |-> Columns(items),
          rows |-> [i \in 1..Length(items) |->
                      [j \in 1..Len(Columns(items)) |->
                          Cell(Elem(items, i), Columns(items)[j], fmt)]]]

-----------------------------------------------------------------------------
(* CrepidDashboard: what it renders from its state *)

Key_activities == <<"a", "c", "t", "i", "v", "i", "t", "i", "e", "s", "_", "w", "i", "t", "h",
                    "_", "m", "e", "t", "r", "i", "c", "s">>
Key_rebalance == <<"r", "e", "b", "a", "l", "a", "n", "c", "e">>
Key_hiring == <<"h", "i", "r", "i", "n", "g">>
Key_employees == <<"e", "m", "p", "l", "o", "y", "e", "e", "s">>
Key_NewHires == <<"N", "e", "w", "H", "i", "r", "e", "s">>
Key_training == <<"t", "r", "a", "i", "n", "i", "n", "g">>
Key_appraisal == <<"a", "p", "p", "r", "a", "i", "s", "a", "l">>
Key_risks == <<"r", "i", "s", "k", "s">>

\* an upload button that is never disabled
NeverDisabled == FALSE

\* <Button onClick={handleUpload} disabled={loading}>
UploadDisabled == loading

\* a currency toggle rendered without data
AlwaysPopulated == TRUE

\* {data && (...)}: the currency toggle, the cards and the tables are rendered
Populated == Truthy(data)

\* the six SectionTable elements of the "Tables Section", in order
Sections(doc, cur) ==
    IF ~Truthy(doc) THEN <<>>
    ELSE << SectionTable("Activities with Metrics", Get(doc, Key_activities), cur),
            SectionTable("Rebalance Suggestions", Get(doc, Key_rebalance), NoFormatter),
            SectionTable("Hiring", OptGet(Get(doc, Key_hiring), Key_employees), cur),
            SectionTable("Training Recommendations", Get(doc, Key_training), cur),
            SectionTable("Appraisal Suggestions", Get(doc, Key_appraisal), NoFormatter),
            SectionTable("Risk Flags", Get(doc, Key_risks), NoFormatter) >>

-----------------------------------------------------------------------------
(* The backend's answers and the browser's promises *)

Key_Name == <<"N", "a", "m", "e">>
Key_Cost == <<"C", "o", "s", "t">>
Key_ROI == <<"R", "O", "I">>
Key_Salary == <<"S", "a", "l", "a", "r", "y">>

\* a training result of one record
Doc1 ==
    Obj(<< <<Key_training,
             Arr(<< Obj(<< <<Key_Name, Str(<<"a">>)>>, <<Key_Cost, Num(8300)>>,
                           <<Key_ROI, Num(8)>> >>) >>)>> >>)

\* a hiring result: NewHires = 3 and two employees
Doc2 ==
    Obj(<< <<Key_hiring,
             Obj(<< <<Key_NewHires, Num(3)>>,
                    <<Key_employees,
                      Arr(<< Obj(<< <<Key_Name, Str(<<"b">>)>>, <<Key_Salary, Num(100)>> >>),
                             Obj(<< <<Key_Name, Str(<<"c">>)>> >>) >>)>> >>)>> >>)

\* what a body that parses as JSON can parse to: the backend is not validated,
\* so `null` is among them
ServerBodies == {Null, Doc1, Doc2}

\* the HTTP statuses the backend answers with
HttpStatuses == {200, 500}

\* res.ok
Ok(res) == res.n >= 200 /\ res.n <= 299

Pending == [state |-> "pending", value |-> Undefined]
Fulfilled(v) == [state |-> "fulfilled", value |-> v]
Rejected == [state |-> "rejected", value |-> Undefined]

\* how the promise an activation awaits at pc can settle: fetch resolves to a
\* response or rejects (network failure); res.json() resolves to the parsed body
\* or rejects (parse failure); res.text() resolves to the text or rejects
Outcomes(pc) ==
    CASE pc = "fetch" -> {Fulfilled(Num(st)) : st \in HttpStatuses} \cup {Rejected}
      [] pc = "json" -> {Fulfilled(b) : b \in ServerBodies} \cup {Rejected}
      [] OTHER -> {Fulfilled(Str(<<"e", "r", "r">>)), Rejected}

\* a File of an <input type="file">
CsvFile == Obj(<<>>)

Remove(seq, i) == SubSeq(seq, 1, i - 1) \o SubSeq(seq, i + 1, Len(seq))

Ev(name, arg) == [name |-> name, arg |-> arg]

NoAlert == ""

-----------------------------------------------------------------------------
(* CrepidDashboard: its handlers *)

MissingFilesMsg == "Please select all three files!"
UploadFailedMsg == "Upload failed! Check console for details."

\* onChange={(e) => setRosterFile(e.target.files[0])}: files[0] is undefined
\* when the dialog leaves the input empty
SelectRoster(f) ==
    /\ rosterFile' = f
    /\ alertMsg' = NoAlert
    /\ event' = Ev("setRosterFile", <<f>>)
    /\ UNCHANGED <<activitiesFile, skillsFile, loading, data, currency, calls,
                   dashboardData, csvLoading, csvCalls>>

SelectActivities(f) ==
    /\ activitiesFile' = f
    /\ alertMsg' = NoAlert
    /\ event' = Ev("setActivitiesFile", <<f>>)
    /\ UNCHANGED <<rosterFile, skillsFile, loading, data, currency, calls,
                   dashboardData, csvLoading, csvCalls>>

SelectSkills(f) ==
    /\ skillsFile' = f
    /\ alertMsg' = NoAlert
    /\ event' = Ev("setSkillsFile", <<f>>)
    /\ UNCHANGED <<rosterFile, activitiesFile, loading, data, currency, calls,
                   dashboardData, csvLoading, csvCalls>>

\* the test written with && for ||
MissingFileAnd(r, a, s) == ~Truthy(r) /\ ~Truthy(a) /\ ~Truthy(s)

\* if (!rosterFile || !activitiesFile || !skillsFile)
MissingFileOr(r, a, s) == ~Truthy(r) \/ ~Truthy(a) \/ ~Truthy(s)

\* handleUpload up to its first await: the click on "Upload & Compute"
ClickUpload ==
    /\ ~UploadDisabled
    /\ event' = Ev("handleUpload", <<>>)
    /\ IF MissingFileOr(rosterFile, activitiesFile, skillsFile)
       THEN /\ alertMsg' = MissingFilesMsg
            /\ UNCHANGED <<loading, calls>>
       ELSE /\ loading' = TRUE
            /\ calls' = Append(calls, [pc |-> "fetch", promise |-> Pending,
                                        dataAtStart |-> data])
            /\ alertMsg' = NoAlert
    /\ UNCHANGED <<rosterFile, activitiesFile, skillsFile, data, currency,
                   dashboardData, csvLoading, csvCalls>>

\* the network settles the promise activation i awaits
Settle(i) ==
    /\ calls[i].promise.state = "pending"
    /\ \E p \in Outcomes(calls[i].pc) : calls' = [calls EXCEPT ![i].promise = p]
    /\ event' = Ev("network", <<>>)
    /\ UNCHANGED <<rosterFile, activitiesFile, skillsFile, loading, data, currency,
                   dashboardData, csvLoading, csvCalls, alertMsg>>

\* the end of activation i: what it leaves in data and loading, and its notice
Finish(i, newData, newLoading, msg) ==
    /\ data' = newData
    /\ loading' = newLoading
    /\ calls' = Remove(calls, i)
    /\ alertMsg' = msg
    /\ event' = Ev("handleUpload resumed", <<>>)
    /\ UNCHANGED <<rosterFile, activitiesFile, skillsFile, currency,
                   dashboardData, csvLoading, csvCalls>>

\* a catch block that resets the result
CatchClearsData(i) == Finish(i, Null, FALSE, UploadFailedMsg)

\* setLoading(false) moved into the try block: a failure skips it
CatchKeepsLoading(i) == Finish(i, data, loading, UploadFailedMsg)

\* catch (err) { console.error; alert } setLoading(false)
Catch(i) == Finish(i, data, FALSE, UploadFailedMsg)

\* a result merged into the previous document: the properties of result, then
\* those of prev that result lacks
SetDataMerged(prev, result) ==
    IF prev.t = "obj" /\ result.t = "obj"
    THEN Obj(result.e \o SelectSeq(prev.e, LAMBDA pr : Get(result, pr[1]).t = "undefined"))
    ELSE result

\* setData(result): the state that replaces prev
SetData(prev, result) == result

\* const result = await res.json(); setData(result); setLoading(false)
StoreResult(i) == Finish(i, SetData(data, calls[i].promise.value), FALSE, NoAlert)

\* handleUpload resumes after `await fetch(...)`
AfterFetch(i) ==
    /\ calls[i].pc = "fetch"
    /\ calls[i].promise.state # "pending"
    /\ IF calls[i].promise.state = "rejected" \/ ~Ok(calls[i].promise.value)
       THEN Catch(i)
       ELSE /\ calls' = [calls EXCEPT ![i].pc = "json", ![i].promise = Pending]
            /\ alertMsg' = NoAlert
            /\ event' = Ev("handleUpload resumed", <<>>)
            /\ UNCHANGED <<rosterFile, activitiesFile, skillsFile, loading, data,
                           currency, dashboardData, csvLoading, csvCalls>>

\* handleUpload resumes after `await res.json()`
AfterJson(i) ==
    /\ calls[i].pc = "json"
    /\ calls[i].promise.state # "pending"
    /\ IF calls[i].promise.state = "rejected" THEN Catch(i) ELSE StoreResult(i)

\* onClick={() => setCurrency(currency === "INR" ? "USD" : "INR")}
ToggleCurrency ==
    /\ Populated
    /\ currency' = IF currency = "INR" THEN "USD" ELSE "INR"
    /\ alertMsg' = NoAlert
    /\ event' = Ev("setCurrency", <<>>)
    /\ UNCHANGED <<rosterFile, activitiesFile, skillsFile, loading, data, calls,
                   dashboardData, csvLoading, csvCalls>>

-----------------------------------------------------------------------------
(* CSVUploader, with uploadCSV of lib/api *)

AllRequiredMsg == "All files required!"
UploadedMsg == "CSV files uploaded and processed successfully!"
UploadErrorMsg == "Error uploading files"

\* <Button type="submit" disabled={loading}>: a form whose submit button is
\* disabled is not submitted
SubmitDisabled == csvLoading

\* if (!roster || !activities || !skill_library)
MissingUpload(r, a, s) == ~Truthy(r) \/ ~Truthy(a) \/ ~Truthy(s)

\* handleUpload of the form up to the first await of uploadCSV; r, a, s are
\* e.target.<input>.files[0]
SubmitForm(r, a, s) ==
    /\ ~SubmitDisabled
    /\ event' = Ev("onSubmit", <<r, a, s>>)
    /\ IF MissingUpload(r, a, s)
       THEN /\ alertMsg' = AllRequiredMsg
            /\ UNCHANGED <<csvLoading, csvCalls>>
       ELSE /\ csvLoading' = TRUE
            /\ csvCalls' = Append(csvCalls, [pc |-> "fetch", promise |-> Pending,
                                              dataAtStart |-> dashboardData])
            /\ alertMsg' = NoAlert
    /\ UNCHANGED <<rosterFile, activitiesFile, skillsFile, loading, data, currency,
                   calls, dashboardData>>

\* the network settles the promise activation i of uploadCSV awaits
CsvSettle(i) ==
    /\ csvCalls[i].promise.state = "pending"
    /\ \E p \in Outcomes(csvCalls[i].pc) : csvCalls' = [csvCalls EXCEPT ![i].promise = p]
    /\ event' = Ev("network", <<>>)
    /\ UNCHANGED <<rosterFile, activitiesFile, skillsFile, loading, data, currency,
                   calls, dashboardData, csvLoading, alertMsg>>

\* the end of activation i: what it leaves in dashboardData and loading
CsvFinish(i, newData, newLoading, msg) ==
    /\ dashboardData' = newData
    /\ csvLoading' = newLoading
    /\ csvCalls' = Remove(csvCalls, i)
    /\ alertMsg' = msg
    /\ event' = Ev("onSubmit resumed", <<>>)
    /\ UNCHANGED <<rosterFile, activitiesFile, skillsFile, loading, data, currency,
                   calls>>

\* uploadCSV rethrows; catch (err) { console.error; alert } finally { setLoading(false) }
CsvCatch(i) == CsvFinish(i, dashboardData, FALSE, UploadErrorMsg)

\* setDashboardData(data): the context value that replaces prev
SetDashboardData(prev, result) == result

\* setDashboardData(data); alert(...); finally { setLoading(false) }
CsvStoreResult(i) ==
    CsvFinish(i, SetDashboardData(dashboardData, csvCalls[i].promise.value), FALSE,
              UploadedMsg)

\* uploadCSV resumes after `await fetch(...)`: it goes on to read the error text
\* of a response that is not ok, and to parse the body of one that is
CsvAfterFetch(i) ==
    /\ csvCalls[i].pc = "fetch"
    /\ csvCalls[i].promise.state # "pending"
    /\ IF csvCalls[i].promise.state = "rejected"
       THEN CsvCatch(i)
       ELSE /\ csvCalls' = [csvCalls EXCEPT
                              ![i].pc = IF Ok(csvCalls[i].promise.value)
                                        THEN "json" ELSE "text",
                              ![i].promise = Pending]
            /\ alertMsg' = NoAlert
            /\ event' = Ev("onSubmit resumed", <<>>)
            /\ UNCHANGED <<rosterFile, activitiesFile, skillsFile, loading, data,
                           currency, calls, dashboardData, csvLoading>>

\* uploadCSV resumes after `await res.text()` (it throws either way) or after
\* `await res.json()`, and handleUpload after `await uploadCSV(...)`
CsvAfterBody(i) ==
    /\ csvCalls[i].pc \in {"text", "json"}
    /\ csvCalls[i].promise.state # "pending"
    /\ IF csvCalls[i].pc = "text" \/ csvCalls[i].promise.state = "rejected"
       THEN CsvCatch(i)
       ELSE CsvStoreResult(i)

-----------------------------------------------------------------------------
(* The application: both components mounted under the AppProvider *)

Init ==
    /\ rosterFile = Null
    /\ activitiesFile = Null
    /\ skillsFile = Null
    /\ loading = FALSE
    /\ data = Null
    /\ currency = "INR"
    /\ calls = <<>>
    /\ dashboardData = Null
    /\ csvLoading = FALSE
    /\ csvCalls = <<>>
    /\ alertMsg = NoAlert
    /\ event = Ev("mount", <<>>)

\* e.target.files[0] of a file input
FileChoices == {Undefined, CsvFile}

\* the continuations the event loop runs once their promise has settled
Resume == \E i \in 1..Len(calls) : AfterFetch(i) \/ AfterJson(i)

CsvResume == \E i \in 1..Len(csvCalls) : CsvAfterFetch(i) \/ CsvAfterBody(i)

Next ==
    \/ \E f \in FileChoices : SelectRoster(f)
    \/ \E f \in FileChoices : SelectActivities(f)
    \/ \E f \in FileChoices : SelectSkills(f)
    \/ ClickUpload
    \/ \E i \in 1..Len(calls) : Settle(i)
    \/ \E i \in 1..Len(calls) : AfterFetch(i)
    \/ \E i \in 1..Len(calls) : AfterJson(i)
    \/ ToggleCurrency
    \/ \E r, a, s \in FileChoices : SubmitForm(r, a, s)
    \/ \E i \in 1..Len(csvCalls) : CsvSettle(i)
    \/ \E i \in 1..Len(csvCalls) : CsvAfterFetch(i)
    \/ \E i \in 1..Len(csvCalls) : CsvAfterBody(i)

Spec == Init /\ [][Next]_vars

\* the event loop runs a continuation whose promise has settled; nothing obliges
\* the network to settle a promise, or the user to click
LiveSpec == Spec /\ WF_vars(Resume) /\ WF_vars(CsvResume)

-----------------------------------------------------------------------------
(* The dashboard with a result document on display: any document of           *)
(* RenderDocs has been returned by an upload, and the user toggles the unit.  *)

Key_ExpectedGain == <<"E", "x", "p", "e", "c", "t", "e", "d", "G", "a", "i", "n">>
Key_NetValue == <<"N", "e", "t", "V", "a", "l", "u", "e">>
Key_SALARY == <<"S", "A", "L", "A", "R", "Y">>
Key_roi == <<"r", "o", "i">>
Key_Roi == <<"R", "o", "i">>
Key_Heroic == <<"H", "e", "r", "o", "i", "c">>

\* column names of the one-cell tables
CellColumns ==
    {Key_Name, Key_Cost, Key_ExpectedGain, Key_NetValue, Key_SALARY,
     Key_ROI, Key_roi, Key_Roi, Key_Heroic}

\* amounts that round up and down under the conversion, that group differently
\* in en-IN and en-US, and negative ones
SampleAmounts == {41, 42, 100, 125, 8300, 123456, 1234567, -10, -83}

\* cell values: numbers, null, the empty string and a non-numeric string
CellValues ==
    {Num(n) : n \in (0..MaxNum) \cup SampleAmounts}
        \cup {Null, Str(<<>>), Str(<<"n", "/", "a">>)}

\* tables of one record with one column
CellItems == {Arr(<< Obj(<< <<col, v>> >>) >>) : col \in CellColumns, v \in CellValues}

ShapeKeyList == <<Key_Cost, Key_ROI, Key_Name>>

ShapeKeys == {ShapeKeyList[k] : k \in 1..(IF MaxKeys < 3 THEN MaxKeys ELSE 3)}

ShapeValue(key) ==
    CASE key = Key_Cost -> Num(8300)
      [] key = Key_ROI -> Num(8)
      [] OTHER -> Str(<<"a">>)

\* records over ShapeKeys: every choice of distinct keys in every order
ShapeRecords ==
    {Obj([j \in 1..Len(ks) |-> <<ks[j], ShapeValue(ks[j])>>]) :
        ks \in {q \in UNION {[1..n -> ShapeKeys] : n \in 0..MaxKeys} :
                    \A a, b \in 1..Len(q) : a # b => q[a] # q[b]}}

\* tables of up to MaxRows such records, whose key sets differ from row to row
ShapeItems == {Arr(rows) : rows \in UNION {[1..n -> ShapeRecords] : n \in 0..MaxRows}}

\* the result document that holds items as its k-th collection
DocWith(k, items) ==
    CASE k = 1 -> Obj(<< <<Key_activities, items>> >>)
      [] k = 2 -> Obj(<< <<Key_rebalance, items>> >>)
      [] k = 3 -> Obj(<< <<Key_hiring, Obj(<< <<Key_NewHires, Num(Length(items))>>,
                                             <<Key_employees, items>> >>)>> >>)
      [] k = 4 -> Obj(<< <<Key_training, items>> >>)
      [] k = 5 -> Obj(<< <<Key_appraisal, items>> >>)
      [] OTHER -> Obj(<< <<Key_risks, items>> >>)

RenderDocs ==
    {DocWith(k, items) : k \in 1..6, items \in CellItems \cup ShapeItems} \cup {Obj(<<>>)}

\* after a successful upload of three files that returned a document of RenderDocs
RenderInit ==
    /\ rosterFile = CsvFile
    /\ activitiesFile = CsvFile
    /\ skillsFile = CsvFile
    /\ loading = FALSE
    /\ data \in RenderDocs
    /\ currency = "INR"
    /\ calls = <<>>
    /\ dashboardData = Null
    /\ csvLoading = FALSE
    /\ csvCalls = <<>>
    /\ alertMsg = NoAlert
    /\ event = Ev("handleUpload resumed", <<>>)

RenderNext == ToggleCurrency

RenderSpec == RenderInit /\ [][RenderNext]_vars

-----------------------------------------------------------------------------
(* Properties *)

\* the collection each of the six sections is rendered from, in section order
SourceItems(doc) ==
    << Get(doc, Key_activities), Get(doc, Key_rebalance),
       OptGet(Get(doc, Key_hiring), Key_employees), Get(doc, Key_training),
       Get(doc, Key_appraisal), Get(doc, Key_risks) >>

\* the display: the sections rendered from the state, as one value
Display == {Sections(data, currency)}

\* the positions <<k, i, j>> of the cells of the sections shown: section, row, column
Cells(shown) ==
    UNION {{<<k, i, j>> : i \in 1..Len(shown[k].rows), j \in 1..Len(shown[k].columns)} :
              k \in {h \in 1..Len(shown) : shown[h].shown}}

\* the value the document holds for the cell at p, undefined when it holds none
RawAt(shown, p) == Get(Elem(SourceItems(data)[p[1]], p[2]), shown[p[1]].columns[p[3]])

CellAt(shown, p) == shown[p[1]].rows[p[2]][p[3]]

ColumnAt(shown, p) == shown[p[1]].columns[p[3]]

RECURSIVE MagnitudeFrom(_, _)
\* the number a displayed string shows: its digits, read without separators
MagnitudeFrom(chars, acc) ==
    IF Len(chars) = 0 THEN acc
    ELSE IF \E k \in 1..10 : DigitChars[k] = chars[1]
         THEN MagnitudeFrom(Tail(chars),
                            10 * acc + (CHOOSE k \in 1..10 : DigitChars[k] = chars[1]) - 1)
         ELSE MagnitudeFrom(Tail(chars), acc)

Magnitude(v) == MagnitudeFrom(v.c, 0)

Abs(n) == IF n < 0 THEN -n ELSE n

NamesCurrency(col) ==
    \E sub \in {Chars_cost, Chars_gain, Chars_value, Chars_salary} :
        includes(toLowerCase(col), sub)

EmptyOrNull(v) == v.t \in {"null", "undefined"} \/ (v.t = "str" /\ Len(v.c) = 0)

\* v is a currency string in unit cur: it carries the unit's sign
CurrencyString(v, cur) ==
    /\ v.t = "str"
    /\ \E k \in 1..Len(v.c) : v.c[k] = (IF cur = "USD" THEN DollarSign ELSE RupeeSign)

Selected(f) == f.t = "obj"

AllThreeSelected == Selected(rosterFile) /\ Selected(activitiesFile) /\ Selected(skillsFile)

HasData == data.t = "obj"

\* activation c of the dashboard's handleUpload has failed: fetch rejected, the
\* response is not ok, or res.json() rejected
Failed(c) ==
    \/ c.promise.state = "rejected"
    \/ c.pc = "fetch" /\ c.promise.state = "fulfilled"
          /\ ~(c.promise.value.n \in 200..299)

\* activation c of the dashboard's handleUpload has its parsed body
Succeeded(c) == c.pc = "json" /\ c.promise.state = "fulfilled"

\* activation c of the form's handleUpload has failed: fetch rejected, the error
\* text of a response that is not ok has been read (or not), or res.json() rejected
CsvFailed(c) ==
    \/ c.promise.state = "rejected"
    \/ c.pc = "text" /\ c.promise.state = "fulfilled"

\* C1: a failed upload (response not ok, network failure, parse failure) ends with
\* the result container as it was when the upload started and with loading false,
\* which enables the upload control again; in the dashboard and in the form.
C1_FailedUploadKeepsData ==
    [][ /\ \A i \in 1..Len(calls) :
              (Failed(calls[i]) /\ calls' = Remove(calls, i))
                  => /\ data' = calls[i].dataAtStart
                     /\ data' = data
                     /\ loading' = FALSE
                     /\ ~UploadDisabled'
        /\ \A i \in 1..Len(csvCalls) :
              (CsvFailed(csvCalls[i]) /\ csvCalls' = Remove(csvCalls, i))
                  => /\ dashboardData' = csvCalls[i].dataAtStart
                     /\ dashboardData' = dashboardData
                     /\ csvLoading' = FALSE
                     /\ ~SubmitDisabled' ]_vars

\* a failed upload has just ended, with an earlier document still in place
C1_Witness ==
    /\ alertMsg = UploadFailedMsg
    /\ event.name = "handleUpload resumed"
    /\ HasData
    /\ ~loading

\* C2: a click on upload with a file unselected raises the notice, issues no
\* request and leaves loading, data and currency as they were; loading turns true,
\* and a request starts, only with all three files selected (the form likewise).
C2_MissingFileBlocks ==
    [][ /\ (event'.name = "handleUpload" /\ ~AllThreeSelected)
              => /\ alertMsg' = MissingFilesMsg
                 /\ UNCHANGED <<loading, data, currency, calls>>
        /\ (loading' /\ ~loading) => (AllThreeSelected /\ Len(calls') = Len(calls) + 1)
        /\ Len(calls') > Len(calls) => (AllThreeSelected /\ loading')
        /\ (event'.name = "onSubmit" /\ \E k \in 1..3 : ~Selected(event'.arg[k]))
              => /\ alertMsg' = AllRequiredMsg
                 /\ UNCHANGED <<csvLoading, dashboardData, csvCalls>>
        /\ Len(csvCalls') > Len(csvCalls)
              => (event'.name = "onSubmit" /\ \A k \in 1..3 : Selected(event'.arg[k])) ]_vars

\* the notice is up after a click with two of the three files selected
C2_Witness ==
    /\ alertMsg = MissingFilesMsg
    /\ event.name = "handleUpload"
    /\ Selected(rosterFile)
    /\ Selected(activitiesFile)
    /\ ~Selected(skillsFile)
    /\ ~loading
    /\ calls = <<>>

\* C3: each view has at most one upload request outstanding, and has one exactly
\* while its loading flag is set, which is while its upload control is disabled.
C3_OneRequestAtATime ==
    /\ Len(calls) <= 1
    /\ loading <=> Len(calls) = 1
    /\ Len(csvCalls) <= 1
    /\ csvLoading <=> Len(csvCalls) = 1

\* a request is outstanding with the three files still selected
C3_Witness ==
    /\ Len(calls) = 1
    /\ calls[1].promise.state = "pending"
    /\ loading
    /\ AllThreeSelected

\* C4: data and dashboardData start as null, change only in the step that ends
\* a successful upload, and after that step are exactly the parsed body of its
\* response.
C4_WholesaleReplacement ==
    /\ data.t = "null"
    /\ dashboardData.t = "null"
    /\ [][ /\ data' # data
                => \E i \in 1..Len(calls) : Succeeded(calls[i]) /\ calls' = Remove(calls, i)
           /\ \A i \in 1..Len(calls) :
                (Succeeded(calls[i]) /\ calls' = Remove(calls, i))
                    => data' = calls[i].promise.value
           /\ dashboardData' # dashboardData
                => \E i \in 1..Len(csvCalls) :
                      Succeeded(csvCalls[i]) /\ csvCalls' = Remove(csvCalls, i)
           /\ \A i \in 1..Len(csvCalls) :
                (Succeeded(csvCalls[i]) /\ csvCalls' = Remove(csvCalls, i))
                    => dashboardData' = csvCalls[i].promise.value ]_vars

\* a successful upload has just stored the hiring document
C4_Witness ==
    /\ event.name = "handleUpload resumed"
    /\ alertMsg = NoAlert
    /\ ~loading
    /\ data = Doc2

\* C5: in every table on display, a cell of a column whose name contains "cost",
\* "gain", "value" or "salary" (in any case) shows a currency string in the
\* selected unit when its value is not empty or null, and its value as it is
\* only when that is empty or null.
C5_CurrencyCellsFormatted ==
    \A shown \in Display : \A p \in Cells(shown) :
        NamesCurrency(ColumnAt(shown, p))
            => IF EmptyOrNull(RawAt(shown, p))
               THEN CellAt(shown, p).value = RawAt(shown, p)
               ELSE CurrencyString(CellAt(shown, p).value, currency)

\* C6: a cell of a column whose name is "roi" in any case has one of the three
\* backgrounds: a number up to 7 the red one, above 7 and up to 14 the amber
\* one, above 14 the green one; cells of other columns have none.
C6_RoiBackground ==
    \A shown \in Display : \A p \in Cells(shown) :
        \A raw \in {RawAt(shown, p)} : \A bg \in {CellAt(shown, p).backgroundColor} :
            IF toLowerCase(ColumnAt(shown, p)) = <<"r", "o", "i">>
            THEN /\ bg \in {Red400, Amber400, Green400}
                 /\ raw.t = "num"
                      => /\ raw.n <= 7 => bg = Red400
                         /\ (raw.n > 7 /\ raw.n <= 14) => bg = Amber400
                         /\ raw.n > 14 => bg = Green400
            ELSE bg = NoColor

\* an ROI of 14 is on display on the amber background
C6_Witness ==
    \E shown \in Display : \E p \in Cells(shown) :
        /\ ColumnAt(shown, p) = Key_ROI
        /\ RawAt(shown, p) = Num(14)
        /\ CellAt(shown, p).backgroundColor = Amber400

\* the display of the next state
DisplayNext == {Sections(data', currency')}

\* the cell at p shows a formatted number before the step (in shown) and after
\* it (in next)
FormattedNumberAt(shown, next, p) ==
    /\ RawAt(shown, p).t = "num"
    /\ CellAt(shown, p).value.t = "str"
    /\ CellAt(next, p).value.t = "str"

C8_ColumnsFromFirstRecord ==
    \A shown \in Display : \A k \in 1..6 : \A items \in {SourceItems(data)[k]} :
        (items.t = "arr" /\ Len(items.e) > 0)
            => /\ shown[k].shown
               /\ shown[k].columns = [j \in 1..Len(items.e[1][2].e) |-> items.e[1][2].e[j][1]]
               /\ Len(shown[k].rows) = Len(items.e)
               /\ \A i \in 1..Len(items.e) :
                     /\ Len(shown[k].rows[i]) = Len(shown[k].columns)
                     /\ \A j \in 1..Len(shown[k].columns) :
                           LET holds == {h \in 1..Len(items.e[i][2].e) :
                                            items.e[i][2].e[h][1] = shown[k].columns[j]}
                               cell == shown[k].rows[i][j].value
                           IN IF holds = {}
                              THEN cell.t = "undefined"
                              ELSE \E h \in holds :
                                      cell \in {items.e[i][2].e[h][2],
                                                formatCurrency(items.e[i][2].e[h][2], currency)}

\* a table of two rows whose second record lacks the first's key and has another
C8_Witness ==
    \E shown \in Display : \E k \in 1..6 :
        /\ shown[k].shown
        /\ Len(shown[k].rows) = 2
        /\ shown[k].columns = <<Key_Cost>>
        /\ shown[k].rows[2][1].value.t = "undefined"
        /\ ObjectKeys(Elem(SourceItems(data)[k], 2)) = <<Key_ROI>>

\* the dashboard's activation c has completed: it failed, or its body is parsed
Completed(c) == Failed(c) \/ Succeeded(c)

\* the form's activation c has completed
CsvCompleted(c) == CsvFailed(c) \/ Succeeded(c)

\* C9: once the request of an upload has completed, in success or in any failure,
\* loading becomes false; and loading turns false only in a step taken with the
\* request completed, so it stays true for as long as the request is pending.
C9_LoadingClears ==
    /\ (loading /\ \E i \in 1..Len(calls) : Completed(calls[i])) ~> ~loading
    /\ (csvLoading /\ \E i \in 1..Len(csvCalls) : CsvCompleted(csvCalls[i])) ~> ~csvLoading
    /\ [][ /\ (loading /\ ~loading') => \E i \in 1..Len(calls) : Completed(calls[i])
           /\ (csvLoading /\ ~csvLoading')
                => \E i \in 1..Len(csvCalls) : CsvCompleted(csvCalls[i]) ]_vars

\* the response was not ok and loading is still set: the continuation is due
C9_Witness ==
    /\ loading
    /\ Len(calls) = 1
    /\ calls[1].pc = "fetch"
    /\ calls[1].promise = Fulfilled(Num(500))

\* C10 as stated: once data is present, no step returns it to null.
C10_NeverBackToEmpty == [][HasData => data'.t = "obj"]_vars

\* C10 as amended: data present turns to null only in the step that ends a
\* successful upload whose parsed body is null; and the unit changes only in a
\* step taken with data present, which leaves data as it is.
C10_OnlyNullBodyEmpties ==
    [][ /\ (HasData /\ data'.t # "obj")
              => \E i \in 1..Len(calls) :
                    /\ Succeeded(calls[i])
                    /\ calls[i].promise.value.t = "null"
                    /\ calls' = Remove(calls, i)
        /\ currency' # currency => (HasData /\ data' = data) ]_vars

\* data is null again with the unit left at USD
C10_Witness ==
    /\ data.t = "null"
    /\ currency = "USD"
    /\ ~loading

====
